---------------------------- MODULE Spec2Model ----------------------------
(***************************************************************************)
(* The geospatial feature store of practice2: the transactional Engine     *)
(* (record log, primary index, spatial index, checkpoint) and the Storage  *)
(* facade whose HTTP handlers hand transactions to the Engine's Run loop.  *)
(*                                                                         *)
(* Two specifications share the variables:                                 *)
(*   Spec        the program as main() wires it: NewStorage, Storage.Run,  *)
(*               the five handlers, the Run goroutine, Storage.Stop.       *)
(*   EngineSpec  the Engine with its most general client: NewEngine, the   *)
(*               methods saveTransaction and check called directly before  *)
(*               Run is started, then any Transaction sent on jobs, and    *)
(*               Stop.                                                     *)
(***************************************************************************)
EXTENDS Integers, Sequences, FiniteSets, Bags, TLC

(* ------------------------------ bounds -------------------------------- *)

\* Handler goroutines that may be blocked on <-s.resp in one process run.
MaxReqs == 3

\* Records the log file may hold.
MaxLog == 3

\* Engine operations (saveTransaction, check, Stop, a transaction sent on
\* jobs) the Engine's client performs in one behaviour.
MaxCalls == 3

\* Times the Run goroutine is followed through its <-ctx.Done() case.
MaxCloses == 2

(* ------------------------------- data --------------------------------- *)

\* Feature identifiers (Feature.ID, a string).
Ids == {"a", "b"}

\* The geometry of deleteHandler's feature: &geojson.Feature{} has none.
NoGeometry == 0

\* Geometries clients send.  11 stands for coordinates with more than six
\* decimals whose six-digit form is that of 10.
Geoms == {10, 11}

\* MarshalFloatWith6Digits: every marshalled coordinate keeps six decimals.
Marshal6(g) == (g \div 10) * 10

\* geojson.Feature as the engine uses it: identifier and geometry.
Feature == [id : Ids, geom : Geoms \cup {NoGeometry}]

\* Transaction.Feature == nil (selectHandler, checkpointHandler).
NilFeature == [id |-> "nil", geom |-> NoGeometry]

\* Feature.MarshalJSON through the frozen jsoniter config.
MarshalFeature(f) == [id |-> f.id, geom |-> Marshal6(f.geom)]

\* Transaction (Name is constant and LSN is set by saveTransaction).
Txn(action, feature) == [action |-> action, feature |-> feature]

\* A log or checkpoint line on disk: json.Marshal(txn).  A feature without
\* geometry is written with a null geometry and decodes again.
Record(action, n, feature) ==
    [action |-> action, lsn |-> n, feature |-> MarshalFeature(feature)]

\* A line json.Decoder cannot decode (a torn or corrupt write).
Malformed == [action |-> "malformed", lsn |-> 0, feature |-> NilFeature]

\* decoder.Decode(&txn) of a well-formed line.
Decode(rec) == Txn(rec.action, rec.feature)

\* The transaction the Run goroutine holds when it waits in select.
NoTxn ==
    [action |-> "none", feature |-> NilFeature, lsn |-> 0, via |-> "none"]

\* ([]byte, error) of applyTransaction; call is the action applied.
Ret(call, err, data) == [call |-> call, err |-> err, data |-> data]

NoRet == Ret("none", "nil", EmptyBag)

\* A file that does not exist / a file holding lines.
NoFile == [exists |-> FALSE, lines |-> <<>>]

File(lines) == [exists |-> TRUE, lines |-> lines]

\* The full-database JSON file: a feature collection.
NoDb == [exists |-> FALSE, decodes |-> FALSE, features |-> {}]

Db(features) == [exists |-> TRUE, decodes |-> TRUE, features |-> features]

\* The file after os.Create and before file.Write: no JSON in it.
EmptyDbFile == [exists |-> TRUE, decodes |-> FALSE, features |-> {}]

(* ------------------------- index operations --------------------------- *)

\* e.primary[id] = f
MapPut(m, id, f) ==
    [x \in (DOMAIN m) \cup {id} |-> IF x = id THEN f ELSE m[x]]

\* delete(e.primary, id)
MapDelete(m, id) == [x \in (DOMAIN m) \ {id} |-> m[x]]

EmptyMap == [x \in {} |-> NilFeature]

\* The Spatial Index is the bag of the features it holds: an entry is
\* found again by the feature pointer it was inserted with, and the feature
\* primary holds under an identifier is the one last inserted for it.  A
\* feature without bbox is indexed under the zero bound (BBox.Bound()).

\* rtree.Insert: one more entry, whatever the tree already holds.
RTreeInsert(t, f) == t (+) SetToBag({f})

\* rtree.Delete: removes one entry holding this feature, if there is one.
RTreeDelete(t, f) == t (-) SetToBag({f})

\* Identifiers enumerated by spatial.Scan.
ScanIds(t) == {f.id : f \in BagToSet(t)}

RECURSIVE SumCopies(_, _)
SumCopies(S, t) ==
    IF S = {} THEN 0
    ELSE LET f == CHOOSE x \in S : TRUE
         IN  CopiesIn(f, t) + SumCopies(S \ {f}, t)

\* col.MarshalJSON() of the scanned collection: the marshalled features,
\* with multiplicity; the scan order is the tree's and is not modelled.
MarshalCollection(t) ==
    LET out == {MarshalFeature(f) : f \in BagToSet(t)}
    IN  [g \in out |->
            SumCopies({f \in BagToSet(t) : MarshalFeature(f) = g}, t)]

\* drain(m): the collection of the map's values.
drain(m) == {m[x] : x \in DOMAIN m}

(* ------------------------------ state --------------------------------- *)

VARIABLES
    logFile,    \* engine.log: the lines on disk
    ckptFile,   \* engine.checkpoint: NoFile or File(lines)
    dbFile,     \* Storage.dbFile: NoDb, Db(marshalled features), EmptyDbFile
    phase,      \* "down", "ready" (NewEngine returned), "running" (Run started)
    exit,       \* how the last process ended: "none", "panic", "stop", "kill"
    primary,    \* Engine.primary
    spatial,    \* Engine.spatial
    lsn,        \* Engine.lsn
    tnx,        \* what the Run goroutine received from jobs and has not applied
    waiting,    \* handler goroutines blocked in <-s.resp
    ret,        \* what the last applyTransaction / saveTransaction / check returned
    status,     \* the HTTP status of the last handler that returned
    calls,      \* operations the Engine's client has performed so far
    replayed,   \* log lines replayLog applied in the last NewEngine
    okMut,      \* mutating transactions applied without error in this run
    seqs,       \* the LSN carried by each mutating transaction applied in
                \* this run, in the order they were applied
    live,       \* what the facade's requests so far should have stored
    rt,         \* "none", "ckpt" (checkpoint requested, no mutation since),
                \* "restarted" (and a fresh engine was started after it)
    stopped,    \* Engine.ctx is cancelled
    closes,     \* logFile.Close() calls the Run goroutine has made
    foreign,    \* how a goroutine other than Run's has accessed primary
                \* while Run's was running: "none", "idle" (Run's was
                \* waiting in select), "applying" (it held a transaction)
    \* practice1, the map-plus-collection storage
    geoUp,      \* the process is running (Storage.Run has returned)
    geoCache,   \* Storage.geoCache
    geoDB,      \* Storage.geoDB.Features
    geoFile,    \* its dbFile: NoFile or File(marshalled features)
    code,       \* how the last handler ended: an HTTP status or "panic"
    \* practice0, the buffer program
    pc,         \* where each goroutine is
    writer,     \* per RWMutex: "idle", "waiting" (in Lock), "held"
    reader,     \* per RWMutex: "idle", "blocked" (in RLock), "held"
    b,          \* the buffer, one sequence of bytes per half
    next        \* per filler: the index filler's loop is at

disk == <<logFile, ckptFile, dbFile>>

memory == <<primary, spatial, lsn>>

signal == <<stopped, closes>>

\* The state of practice1 and of practice0.
cacheVars == <<geoUp, geoCache, geoDB, geoFile, code>>

bufVars == <<pc, writer, reader, b, next>>

\* What no step of practice2 touches.
elsewhere == <<cacheVars, bufVars>>

\* The state of practice2.
storeVars == <<logFile, ckptFile, dbFile, phase, exit, primary, spatial, lsn,
               tnx, waiting, ret, status, calls, replayed, okMut, seqs, live,
               rt, stopped, closes, foreign>>

vars == <<storeVars, cacheVars, bufVars>>

(* -------------------------- applyTransaction -------------------------- *)

\* What one applyTransaction call leaves behind.
Applied(p, t, r, panicked) ==
    [primary |-> p, spatial |-> t, ret |-> r, panic |-> panicked]

\* The mutating actions of the switch.
Mutating == {"insert", "replace", "delete"}

\* Engine.applyTransaction on the indices (p, t).  A nil Feature or an
\* action outside the switch panics.  "checkpoint" opens the file named
\* Name + lsn + checkpointPath read-only: the open fails, or the write to
\* it does, so the case returns an error and changes nothing.
ApplyTransaction(p, t, txn) ==
    CASE txn.action \in {"insert", "replace"} ->
            IF txn.feature = NilFeature
            THEN Applied(p, t, NoRet, TRUE)
            ELSE Applied(MapPut(p, txn.feature.id, txn.feature),
                         RTreeInsert(t, txn.feature),
                         Ret(txn.action, "nil", EmptyBag), FALSE)
      [] txn.action = "delete" ->
            IF txn.feature = NilFeature
            THEN Applied(p, t, NoRet, TRUE)
            ELSE IF txn.feature.id \in DOMAIN p
            THEN Applied(MapDelete(p, txn.feature.id),
                         RTreeDelete(t, p[txn.feature.id]),
                         Ret("delete", "nil", EmptyBag), FALSE)
            ELSE Applied(p, t, Ret("delete", "notfound", EmptyBag), FALSE)
      [] txn.action = "select" ->
            Applied(p, t, Ret("select", "nil", MarshalCollection(t)), FALSE)
      [] txn.action = "checkpoint" ->
            Applied(p, t, Ret("checkpoint", "open", EmptyBag), FALSE)
      [] OTHER -> Applied(p, t, NoRet, TRUE)

(* ------------------------------ recovery ------------------------------ *)

\* The indices while a file is decoded, n lines applied so far.
Loaded(p, t, n, panicked) ==
    [primary |-> p, spatial |-> t, n |-> n, panic |-> panicked]

RECURSIVE DecodeLoopSkipping(_, _)
\* A decode loop that steps over a line it cannot decode.
DecodeLoopSkipping(e, lines) ==
    IF lines = <<>> \/ e.panic THEN e
    ELSE IF Head(lines) = Malformed THEN DecodeLoopSkipping(e, Tail(lines))
    ELSE LET r == ApplyTransaction(e.primary, e.spatial, Decode(Head(lines)))
         IN  DecodeLoopSkipping(
                 Loaded(r.primary, r.spatial, e.n + 1, r.panic), Tail(lines))

RECURSIVE replayLog(_, _)
\* Engine.replayLog: decode and apply line after line, stop at the first
\* line that does not decode.
replayLog(e, lines) ==
    IF lines = <<>> \/ e.panic THEN e
    ELSE IF Head(lines) = Malformed THEN e
    ELSE LET r == ApplyTransaction(e.primary, e.spatial, Decode(Head(lines)))
         IN  replayLog(
                 Loaded(r.primary, r.spatial, e.n + 1, r.panic), Tail(lines))

RECURSIVE loadCheckpoint(_, _)
\* Engine.loadCheckpoint: the same loop over the checkpoint file; a missing
\* file loads nothing.
loadCheckpoint(e, file) ==
    IF ~file.exists \/ file.lines = <<>> \/ e.panic THEN e
    ELSE IF Head(file.lines) = Malformed THEN e
    ELSE LET r == ApplyTransaction(e.primary, e.spatial,
                                   Decode(Head(file.lines)))
         IN  loadCheckpoint(
                 Loaded(r.primary, r.spatial, e.n + 1, r.panic),
                 File(Tail(file.lines)))

\* What NewEngine builds from the two files: empty indices, the checkpoint
\* loaded, the log replayed on top; n counts the log lines applied.
Recover(ckpt, log) ==
    LET c == loadCheckpoint(Loaded(EmptyMap, EmptyBag, 0, FALSE), ckpt)
    IN  replayLog(Loaded(c.primary, c.spatial, 0, c.panic), log)

(* ------------- practice1 and practice0: data, initial state ----------- *)

\* practice1 before the program is started: no process, no file.
CacheInit ==
    /\ geoUp = FALSE
    /\ geoCache = EmptyMap
    /\ geoDB = <<>>
    /\ geoFile = NoFile
    /\ code = "none"

\* The halves b[:size/2] and b[size/2:] of the buffer; each names its
\* mutex (muLeft, muRight) and the goroutine that fills it.
Halves == {"left", "right"}

\* Bytes of each half that are followed.
HalfLen == 2

\* The bytes filler chooses from for a half.
Bytes(h) == IF h = "left" THEN {"0", "1"} ELSE {"X", "Y"}

\* A byte of make([]byte, size).
ZeroByte == "nul"

\* practice0 when main has started the three goroutines.
BufInit ==
    /\ pc = [g \in Halves \cup {"printer"} |->
                IF g = "printer" THEN "rlockLeft" ELSE "lock"]
    /\ writer = [h \in Halves |-> "idle"]
    /\ reader = [h \in Halves |-> "idle"]
    /\ b = [h \in Halves |-> [i \in 1..HalfLen |-> ZeroByte]]
    /\ next = [h \in Halves |-> 0]

(* --------------------------- process life ----------------------------- *)

Init ==
    /\ logFile = <<>>
    /\ ckptFile = NoFile
    /\ dbFile = NoDb
    /\ phase = "down"
    /\ exit = "none"
    /\ primary = EmptyMap
    /\ spatial = EmptyBag
    /\ lsn = 0
    /\ tnx = NoTxn
    /\ waiting = 0
    /\ ret = NoRet
    /\ status = "none"
    /\ calls = 0
    /\ replayed = 0
    /\ okMut = 0
    /\ seqs = <<>>
    /\ live = EmptyMap
    /\ rt = "none"
    /\ stopped = FALSE
    /\ closes = 0
    /\ foreign = "none"
    /\ CacheInit
    /\ BufInit

\* The process is gone: its memory with it, the files stay.
ProcessEnds(how) ==
    /\ phase' = "down"
    /\ exit' = how
    /\ primary' = EmptyMap
    /\ spatial' = EmptyBag
    /\ lsn' = 0
    /\ tnx' = NoTxn
    /\ waiting' = 0
    /\ ret' = NoRet
    /\ status' = "none"
    /\ replayed' = 0
    /\ okMut' = 0
    /\ seqs' = <<>>
    /\ stopped' = FALSE
    /\ closes' = 0

\* NewEngine: open the log, fresh indices and a zero lsn, load the
\* checkpoint, replay the log.  A panic while replaying ends the process.
NewEngine ==
    /\ phase = "down"
    /\ LET e == Recover(ckptFile, logFile)
       IN  IF e.panic
           THEN /\ ProcessEnds("panic")
                /\ UNCHANGED <<rt, calls>>
           ELSE /\ phase' = "ready"
                /\ primary' = e.primary
                /\ spatial' = e.spatial
                /\ lsn' = 0
                /\ replayed' = e.n
                /\ rt' = IF rt = "ckpt" THEN "restarted" ELSE rt
                /\ UNCHANGED <<exit, tnx, waiting, ret, status, calls,
                               okMut, seqs, signal>>
    /\ UNCHANGED <<disk, live, foreign>>
    /\ UNCHANGED elsewhere

\* The process is killed, or main returns before Storage.Stop has run.
Kill ==
    /\ phase # "down"
    /\ ProcessEnds("kill")
    /\ UNCHANGED <<disk, calls, live, rt, foreign>>
    /\ UNCHANGED elsewhere

(* ------------------------------ Engine.Run ---------------------------- *)

\* What the facade's requests should have stored after this one.
LiveAfter(txn) ==
    CASE txn.via \in {"insertHandler", "replaceHandler"} ->
            MapPut(live, txn.feature.id, txn.feature)
      [] txn.via = "deleteHandler" -> MapDelete(live, txn.feature.id)
      [] OTHER -> live

RtAfter(txn) ==
    CASE txn.via \in {"insertHandler", "replaceHandler", "deleteHandler"} ->
            "none"
      [] txn.via = "checkpointHandler" -> "ckpt"
      [] OTHER -> rt

\* A receive that does not wait for the apply in progress: the transaction
\* received before is dropped for the new one.
RendezvousOverwriting(txn) ==
    /\ phase = "running"
    /\ tnx' = txn
    /\ waiting' = waiting + 1
    /\ UNCHANGED <<disk, memory, phase, exit, ret, status, replayed, okMut,
                   seqs, live, rt, foreign, signal>>
    /\ UNCHANGED elsewhere

\* case tnx := <-jobs: the rendezvous with a sender on the unbuffered
\* channel; the sender goes on to wait in <-resp.
Rendezvous(txn) ==
    /\ phase = "running"
    /\ tnx = NoTxn
    /\ tnx' = txn
    /\ waiting' = waiting + 1
    /\ UNCHANGED <<disk, memory, phase, exit, ret, status, replayed, okMut,
                   seqs, live, rt, foreign, signal>>
    /\ UNCHANGED elsewhere

\* A handler of the facade sends txn.
Receive(txn) ==
    /\ waiting < MaxReqs
    /\ Rendezvous(txn)
    /\ UNCHANGED calls

\* A loop whose select rebuilds the Spatial Index from the Primary Index
\* before it scans.
RunBodyCompacting(txn) ==
    IF txn.action = "select"
    THEN ApplyTransaction(primary, SetToBag(drain(primary)), txn)
    ELSE ApplyTransaction(primary, spatial, txn)

\* What the Run loop does with the transaction it received.
RunBody(txn) == ApplyTransaction(primary, spatial, txn)

\* e.applyTransaction(tnx) in the Run goroutine; what it returns is dropped
\* and nothing is sent on resp: the loop goes back to select and the sender
\* stays in <-resp.  A panic ends the process.
RunApply ==
    /\ phase = "running"
    /\ tnx # NoTxn
    /\ LET r == RunBody(Txn(tnx.action, tnx.feature))
       IN  IF r.panic
           THEN /\ ProcessEnds("panic")
                /\ UNCHANGED calls
           ELSE /\ primary' = r.primary
                /\ spatial' = r.spatial
                /\ ret' = r.ret
                /\ tnx' = NoTxn
                /\ okMut' = IF tnx.action \in Mutating /\ r.ret.err = "nil"
                            THEN okMut + 1 ELSE okMut
                /\ seqs' = IF tnx.action \in Mutating
                           THEN Append(seqs, tnx.lsn) ELSE seqs
                /\ UNCHANGED <<lsn, phase, exit, waiting, status, calls,
                               replayed, signal>>
    /\ live' = LiveAfter(tnx)
    /\ rt' = RtAfter(tnx)
    /\ UNCHANGED <<disk, foreign>>
    /\ UNCHANGED elsewhere

(* --------------------------- Storage facade --------------------------- *)

\* What a handler puts on jobs; n is the LSN it read with lsn.Load().
Job(action, feature, n, via) ==
    [action |-> action, feature |-> feature, lsn |-> n, via |-> via]

\* Storage.loadFromFile: when the file exists, primary is replaced by a map
\* of the file's features; spatial is not touched.
loadFromFile(p, db) ==
    IF db.exists
    THEN [x \in {f.id : f \in db.features} |->
             CHOOSE f \in db.features : f.id = x]
    ELSE p

\* Storage.Run: loadFromFile, then the Run goroutine is started.  When the
\* file does not unmarshal the error is logged, col is nil and
\* len(col.Features) panics.
StorageRun ==
    /\ phase = "ready"
    /\ IF dbFile.exists /\ ~dbFile.decodes
       THEN /\ ProcessEnds("panic")
            /\ UNCHANGED <<disk, calls, live, rt, foreign>>
       ELSE /\ phase' = "running"
            /\ primary' = loadFromFile(primary, dbFile)
            /\ UNCHANGED <<disk, exit, spatial, lsn, tnx, waiting, ret,
                           status, calls, replayed, okMut, seqs, live, rt,
                           foreign, signal>>
    /\ UNCHANGED elsewhere

\* Storage.saveToFile: drain(primary) marshalled into the file.
saveToFile(p) == Db({MarshalFeature(f) : f \in drain(p)})

\* What drain(s.eng.primary) in saveToFile may find.  It runs in the signal
\* goroutine under eng.mu, which applyTransaction does not take: when the
\* Run goroutine holds a transaction the map is read while it is written,
\* and the read finds it as it was before or as it is after the apply.
StopViews ==
    IF tnx = NoTxn \/ RunBody(tnx).panic THEN {primary}
    ELSE {primary, RunBody(tnx).primary}

\* Storage.Stop on SIGINT/SIGTERM, in the signal goroutine; the process
\* exits after it, or while it runs: main returns as soon as Shutdown is
\* called, an apply may panic, and the runtime aborts on a map read it
\* detects to race with a write.  written: whether file.Write was reached.
StorageStop ==
    /\ phase = "running"
    /\ \E written \in BOOLEAN :
          IF written
          THEN /\ \E p \in StopViews : dbFile' = saveToFile(p)
               /\ foreign' = IF tnx = NoTxn THEN "idle" ELSE "applying"
          ELSE /\ dbFile' = EmptyDbFile
               /\ UNCHANGED foreign
    /\ ProcessEnds("stop")
    /\ UNCHANGED <<logFile, ckptFile, calls, live, rt>>
    /\ UNCHANGED elsewhere

\* What each handler submits.
insertJob(f) == Job("insert", f, lsn, "insertHandler")

replaceJob(f) == Job("replace", f, lsn, "replaceHandler")

deleteJob(id) ==
    Job("replace", [id |-> id, geom |-> NoGeometry], lsn, "deleteHandler")

selectJob == Job("select", NilFeature, lsn, "selectHandler")

checkpointJob == Job("replace", NilFeature, lsn, "checkpointHandler")

insertHandler == \E id \in Ids, g \in Geoms :
    Receive(insertJob([id |-> id, geom |-> g]))

replaceHandler == \E id \in Ids, g \in Geoms :
    Receive(replaceJob([id |-> id, geom |-> g]))

deleteHandler == \E id \in Ids : Receive(deleteJob(id))

\* selectHandler with a rect query of at least four characters.
selectHandler == Receive(selectJob)

\* selectHandler without one: 400, nothing is submitted.
selectHandlerNoRect ==
    /\ phase = "running"
    /\ status' = "400"
    /\ UNCHANGED <<disk, memory, phase, exit, tnx, waiting, ret, calls,
                   replayed, okMut, seqs, live, rt, foreign, signal>>
    /\ UNCHANGED elsewhere

checkpointHandler == Receive(checkpointJob)

Next ==
    \/ NewEngine
    \/ StorageRun
    \/ insertHandler
    \/ replaceHandler
    \/ deleteHandler
    \/ selectHandler
    \/ selectHandlerNoRect
    \/ checkpointHandler
    \/ RunApply
    \/ StorageStop
    \/ Kill

Spec == Init /\ [][Next]_vars

(* ------------------- the Engine called directly ----------------------- *)

\* What one saveTransaction call leaves behind: the counter, the log, the
\* indices, the error returned, whether applyTransaction panicked, and
\* whether it applied the transaction without error.
Saved(n, log, p, t, err, panicked, ok) ==
    [lsn |-> n, log |-> log, primary |-> p, spatial |-> t,
     ret |-> Ret("save", err, EmptyBag), panic |-> panicked, ok |-> ok]

\* Engine.saveTransaction: advance the counter, stamp the transaction,
\* write its line (written: whether logFile.Write succeeded), apply it and
\* drop what applyTransaction returns.
saveTransaction(n, log, p, t, txn, written) ==
    IF ~written THEN Saved(n + 1, log, p, t, "ioerror", FALSE, FALSE)
    ELSE LET r == ApplyTransaction(p, t, txn)
         IN  Saved(n + 1, Append(log, Record(txn.action, n + 1, txn.feature)),
                   r.primary, r.spatial, "nil", r.panic,
                   ~r.panic /\ r.ret.err = "nil")

\* The mutating transactions a caller saves.
SaveTxns ==
    {Txn(a, [id |-> id, geom |-> g]) :
        a \in {"insert", "replace"}, id \in Ids, g \in Geoms}
    \cup {Txn("delete", [id |-> id, geom |-> NoGeometry]) : id \in Ids}

\* A direct call of saveTransaction before Run is started.
SaveTransaction(txn, written) ==
    /\ phase = "ready"
    /\ calls < MaxCalls
    /\ Len(logFile) < MaxLog
    /\ LET r == saveTransaction(lsn, logFile, primary, spatial, txn, written)
       IN  /\ logFile' = r.log
           /\ calls' = calls + 1
           /\ IF r.panic
              THEN ProcessEnds("panic")
              ELSE /\ lsn' = r.lsn
                   /\ primary' = r.primary
                   /\ spatial' = r.spatial
                   /\ ret' = r.ret
                   /\ okMut' = IF r.ok THEN okMut + 1 ELSE okMut
                   /\ seqs' = Append(seqs, r.lsn)
                   /\ UNCHANGED <<phase, exit, tnx, waiting, status, replayed,
                                  signal>>
    /\ UNCHANGED <<ckptFile, dbFile, live, rt, foreign>>
    /\ UNCHANGED elsewhere

\* The process dies inside logFile.Write of saveTransaction: part of the
\* line is on disk.
TornWrite ==
    /\ phase = "ready"
    /\ calls < MaxCalls
    /\ Len(logFile) < MaxLog
    /\ calls' = calls + 1
    /\ logFile' = Append(logFile, Malformed)
    /\ ProcessEnds("kill")
    /\ UNCHANGED <<ckptFile, dbFile, live, rt, foreign>>
    /\ UNCHANGED elsewhere

RECURSIVE Orders(_)
\* The orders in which range may visit a map's values.
Orders(S) ==
    IF S = {} THEN {<<>>}
    ELSE UNION {{<<f>> \o o : o \in Orders(S \ {f})} : f \in S}

\* The checkpoint line of one feature.
CheckpointLine(f) == Record("insert", 0, f)

\* What one check call leaves behind.
Checked(ckpt, log, err) ==
    [ckpt |-> ckpt, log |-> log, ret |-> Ret("check", err, EmptyBag)]

\* A check that truncates the log as soon as the checkpoint file is open.
checkTruncatingFirst(ckpt, log, created, order, k, torn) ==
    IF ~created THEN Checked(ckpt, log, "ioerror")
    ELSE IF k < Len(order)
    THEN Checked(File([i \in 1..k |-> CheckpointLine(order[i])]
                      \o (IF torn THEN <<Malformed>> ELSE <<>>)),
                 <<>>, "ioerror")
    ELSE Checked(File([i \in 1..Len(order) |-> CheckpointLine(order[i])]),
                 <<>>, "nil")

\* A check that writes the snapshot and leaves the log as it is.
checkKeepingLog(ckpt, log, created, order, k, torn) ==
    IF ~created THEN Checked(ckpt, log, "ioerror")
    ELSE IF k < Len(order)
    THEN Checked(File([i \in 1..k |-> CheckpointLine(order[i])]
                      \o (IF torn THEN <<Malformed>> ELSE <<>>)),
                 log, "ioerror")
    ELSE Checked(File([i \in 1..Len(order) |-> CheckpointLine(order[i])]),
                 log, "nil")

\* Engine.check.  created: whether os.Create succeeded; order: the order
\* range visits primary in; k: the features encoded before Encode fails
\* (Len(order) when none fails); torn: whether the failing Encode left part
\* of its line in the file.  os.Create empties the file that was there.
\* What logFile.Truncate returns is not looked at; it is taken to succeed.
check(ckpt, log, created, order, k, torn) ==
    IF ~created THEN Checked(ckpt, log, "ioerror")
    ELSE IF k < Len(order)
    THEN Checked(File([i \in 1..k |-> CheckpointLine(order[i])]
                      \o (IF torn THEN <<Malformed>> ELSE <<>>)),
                 log, "ioerror")
    ELSE Checked(File([i \in 1..Len(order) |-> CheckpointLine(order[i])]),
                 <<>>, "nil")

\* A direct call of check before Run is started.
Check(created, k, torn) ==
    /\ phase = "ready"
    /\ calls < MaxCalls
    /\ \E order \in Orders(drain(primary)) :
          /\ k <= Len(order)
          /\ (torn => created /\ k < Len(order))
          /\ LET r == check(ckptFile, logFile, created, order, k, torn)
             IN  /\ ckptFile' = r.ckpt
                 /\ logFile' = r.log
                 /\ ret' = r.ret
    /\ calls' = calls + 1
    /\ UNCHANGED <<dbFile, memory, phase, exit, tnx, waiting, status,
                   replayed, okMut, seqs, live, rt, foreign, signal>>
    /\ UNCHANGED elsewhere

\* The process is killed inside check after the last Encode and before
\* logFile.Truncate: the checkpoint file is complete, the log is whole.
CheckKilled ==
    /\ phase = "ready"
    /\ \E order \in Orders(drain(primary)) :
          ckptFile' = File([i \in 1..Len(order) |-> CheckpointLine(order[i])])
    /\ ProcessEnds("kill")
    /\ UNCHANGED <<logFile, dbFile, calls, live, rt, foreign>>
    /\ UNCHANGED elsewhere

\* Engine.Run: the goroutine is started.
EngineRun ==
    /\ phase = "ready"
    /\ phase' = "running"
    /\ UNCHANGED <<disk, memory, exit, tnx, waiting, ret, status, calls,
                   replayed, okMut, seqs, live, rt, foreign, signal>>
    /\ UNCHANGED elsewhere

\* Engine.Stop: e.cancel().
EngineStop ==
    /\ phase \in {"ready", "running"}
    /\ ~stopped
    /\ calls < MaxCalls
    /\ stopped' = TRUE
    /\ calls' = calls + 1
    /\ UNCHANGED <<disk, memory, phase, exit, tnx, waiting, ret, status,
                   replayed, okMut, seqs, live, rt, closes, foreign>>
    /\ UNCHANGED elsewhere

\* case <-e.ctx.Done() of the Run loop: the log is closed and the loop goes
\* on; the closed Done channel stays ready beside jobs.
RunClose ==
    /\ phase = "running"
    /\ stopped
    /\ tnx = NoTxn
    /\ closes < MaxCloses
    /\ closes' = closes + 1
    /\ UNCHANGED <<disk, memory, phase, exit, tnx, waiting, ret, status,
                   calls, replayed, okMut, seqs, live, rt, stopped, foreign>>
    /\ UNCHANGED elsewhere

\* The transactions a holder of the jobs channel may send, stamped as the
\* facade stamps them.
ClientTxns ==
    {Job(x.action, x.feature, lsn, "client") : x \in SaveTxns}
    \cup {Job(a, NilFeature, lsn, "client") :
              a \in {"select", "checkpoint", "bogus"}}

\* The client sends txn on jobs.
Submit == \E txn \in ClientTxns :
    /\ calls < MaxCalls
    /\ Rendezvous(txn)
    /\ calls' = calls + 1

EngineNext ==
    \/ NewEngine
    \/ \E txn \in SaveTxns, written \in BOOLEAN : SaveTransaction(txn, written)
    \/ TornWrite
    \/ \E created, torn \in BOOLEAN, k \in 0..Cardinality(Ids) :
          Check(created, k, torn)
    \/ CheckKilled
    \/ EngineRun
    \/ Submit
    \/ RunApply
    \/ EngineStop
    \/ RunClose
    \/ Kill

EngineSpec == Init /\ [][EngineNext]_vars

(* ---------------- practice1: map plus feature collection -------------- *)

\* slices.IndexFunc(s.geoDB.Features, f.ID == id): the zero-based index of
\* the first feature with the identifier, -1 when there is none.
IndexFunc(features, id) ==
    IF \E i \in 1..Len(features) : features[i].id = id
    THEN (CHOOSE i \in 1..Len(features) :
              /\ features[i].id = id
              /\ \A j \in 1..(i - 1) : features[j].id # id) - 1
    ELSE -1

\* Whether Features[i] is an element of the slice.
InRange(features, i) == i >= 0 /\ i < Len(features)

\* Features[i] = Features[len-1]; Features = Features[:len-1]
SwapRemove(features, i) ==
    SubSeq([features EXCEPT ![i + 1] = features[Len(features)]],
           1, Len(features) - 1)

\* The map loadFromFile builds from a collection.
CacheOf(features) ==
    [id \in {features[i].id : i \in 1..Len(features)} |->
        features[CHOOSE i \in 1..Len(features) :
                     /\ features[i].id = id
                     /\ \A j \in (i + 1)..Len(features) :
                            features[j].id # id]]

\* NewStorage and Storage.Run: empty cache and collection, then
\* loadFromFile replaces both when the file exists.
Run1 ==
    /\ ~geoUp
    /\ geoUp' = TRUE
    /\ geoDB' = IF geoFile.exists THEN geoFile.lines ELSE <<>>
    /\ geoCache' = IF geoFile.exists THEN CacheOf(geoFile.lines) ELSE EmptyMap
    /\ code' = "none"
    /\ UNCHANGED <<geoFile, storeVars, bufVars>>

\* The process of practice1 is gone.
Exit1 ==
    /\ geoUp' = FALSE
    /\ geoCache' = EmptyMap
    /\ geoDB' = <<>>
    /\ code' = "none"

\* Storage.Stop: saveToFile marshals geoDB into the file; the process
\* exits.
Stop1 ==
    /\ geoUp
    /\ geoFile' = File([i \in 1..Len(geoDB) |-> MarshalFeature(geoDB[i])])
    /\ Exit1
    /\ UNCHANGED <<storeVars, bufVars>>

\* The process is killed, or main returns before Storage.Stop has run.
Kill1 ==
    /\ geoUp
    /\ Exit1
    /\ UNCHANGED <<geoFile, storeVars, bufVars>>

\* Storage.insertHandler of practice1 for a feature with a string id: an
\* identifier already in geoCache returns at once (status 200 by default).
insertHandler1(f) ==
    /\ geoUp
    /\ IF f.id \in DOMAIN geoCache
       THEN UNCHANGED <<geoCache, geoDB>>
       ELSE /\ geoCache' = MapPut(geoCache, f.id, f)
            /\ geoDB' = Append(geoDB, f)
    /\ code' = "200"
    /\ UNCHANGED <<geoUp, geoFile, storeVars, bufVars>>

\* Storage.replaceHandler of practice1.  After i == -1 the handler writes
\* the 500 and goes on to Features[i], which panics.
replaceHandler1(f) ==
    /\ geoUp
    /\ IF f.id \notin DOMAIN geoCache
       THEN /\ code' = "404"
            /\ UNCHANGED <<geoCache, geoDB>>
       ELSE /\ geoCache' = MapPut(geoCache, f.id, f)
            /\ LET i == IndexFunc(geoDB, f.id)
               IN  IF InRange(geoDB, i)
                   THEN /\ geoDB' = Append(SwapRemove(geoDB, i), f)
                        /\ code' = "200"
                   ELSE /\ code' = "panic"
                        /\ UNCHANGED geoDB
    /\ UNCHANGED <<geoUp, geoFile, storeVars, bufVars>>

\* Storage.deleteHandler of practice1.  After i == -1 the handler writes
\* the 500 and goes on to Features[i], which panics; the server recovers
\* the panic and the deferred Unlock runs.
deleteHandler1(id) ==
    /\ geoUp
    /\ geoCache' = MapDelete(geoCache, id)
    /\ LET i == IndexFunc(geoDB, id)
       IN  IF InRange(geoDB, i)
           THEN /\ geoDB' = SwapRemove(geoDB, i)
                /\ code' = "200"
           ELSE /\ code' = "panic"
                /\ UNCHANGED geoDB
    /\ UNCHANGED <<geoUp, geoFile, storeVars, bufVars>>

\* Storage.selectHandler of practice1: the collection is marshalled and
\* written.
selectHandler1 ==
    /\ geoUp
    /\ code' = "200"
    /\ UNCHANGED <<geoUp, geoCache, geoDB, geoFile, storeVars, bufVars>>

CacheNext ==
    \/ Run1
    \/ \E id \in Ids, g \in Geoms : insertHandler1([id |-> id, geom |-> g])
    \/ \E id \in Ids, g \in Geoms : replaceHandler1([id |-> id, geom |-> g])
    \/ \E id \in Ids : deleteHandler1(id)
    \/ selectHandler1
    \/ Stop1
    \/ Kill1

CacheSpec == Init /\ [][CacheNext]_vars

(* ------------------- practice0: the buffer program -------------------- *)

\* Whether RWMutex.Lock returns at once: no reader holds the mutex.
LockGranted(r) == r # "held"

\* An RLock that does not look at the writer.
RLockUnguarded(w) == TRUE

\* Whether RWMutex.RLock returns at once: no writer holds the mutex or
\* waits for it.
RLockGranted(w) == w = "idle"

\* mu.Lock() of the goroutine filling half h; it goes on when the mutex is
\* held.
FillerLock(h) ==
    /\ pc[h] = "lock"
    /\ writer' = [writer EXCEPT
                     ![h] = IF LockGranted(reader[h]) THEN "held"
                            ELSE "waiting"]
    /\ pc' = [pc EXCEPT ![h] = "fill"]
    /\ UNCHANGED <<reader, b, next, storeVars, cacheVars>>

\* One round of filler's loop: b[i] is set to one of the two bytes; after
\* the last round filler returns.
filler(h) ==
    /\ pc[h] = "fill"
    /\ writer[h] = "held"
    /\ \E c \in Bytes(h) : b' = [b EXCEPT ![h][next[h] + 1] = c]
    /\ IF next[h] + 1 = HalfLen
       THEN /\ next' = [next EXCEPT ![h] = 0]
            /\ pc' = [pc EXCEPT ![h] = "unlock"]
       ELSE /\ next' = [next EXCEPT ![h] = next[h] + 1]
            /\ UNCHANGED pc
    /\ UNCHANGED <<writer, reader, storeVars, cacheVars>>

\* mu.Unlock(): a reader blocked in RLock now holds the mutex.
FillerUnlock(h) ==
    /\ pc[h] = "unlock"
    /\ writer' = [writer EXCEPT ![h] = "idle"]
    /\ reader' = [reader EXCEPT
                     ![h] = IF reader[h] = "blocked" THEN "held"
                            ELSE reader[h]]
    /\ pc' = [pc EXCEPT ![h] = "sleep"]
    /\ UNCHANGED <<b, next, storeVars, cacheVars>>

\* time.Sleep(time.Second) returns.
FillerWake(h) ==
    /\ pc[h] = "sleep"
    /\ pc' = [pc EXCEPT ![h] = "lock"]
    /\ UNCHANGED <<writer, reader, b, next, storeVars, cacheVars>>

\* muLeft.RLock() of the printing goroutine.
PrinterRLockLeft ==
    /\ pc["printer"] = "rlockLeft"
    /\ reader' = [reader EXCEPT
                     !["left"] = IF RLockGranted(writer["left"]) THEN "held"
                                 ELSE "blocked"]
    /\ pc' = [pc EXCEPT !["printer"] = "rlockRight"]
    /\ UNCHANGED <<writer, b, next, storeVars, cacheVars>>

\* muRight.RLock(), once muLeft.RLock() has returned.
PrinterRLockRight ==
    /\ pc["printer"] = "rlockRight"
    /\ reader["left"] = "held"
    /\ reader' = [reader EXCEPT
                     !["right"] = IF RLockGranted(writer["right"]) THEN "held"
                                  ELSE "blocked"]
    /\ pc' = [pc EXCEPT !["printer"] = "print"]
    /\ UNCHANGED <<writer, b, next, storeVars, cacheVars>>

\* fmt.Println(string(b)), once muRight.RLock() has returned.
PrinterPrint ==
    /\ pc["printer"] = "print"
    /\ reader["right"] = "held"
    /\ pc' = [pc EXCEPT !["printer"] = "runlockLeft"]
    /\ UNCHANGED <<writer, reader, b, next, storeVars, cacheVars>>

\* mu.RUnlock(): a writer waiting in Lock now holds the mutex.
PrinterRUnlock(h) ==
    /\ pc["printer"] = IF h = "left" THEN "runlockLeft" ELSE "runlockRight"
    /\ reader' = [reader EXCEPT ![h] = "idle"]
    /\ writer' = [writer EXCEPT
                     ![h] = IF writer[h] = "waiting" THEN "held"
                            ELSE writer[h]]
    /\ pc' = [pc EXCEPT
                 !["printer"] = IF h = "left" THEN "runlockRight" ELSE "sleep"]
    /\ UNCHANGED <<b, next, storeVars, cacheVars>>

\* time.Sleep(time.Second) of the printing goroutine returns.
PrinterWake ==
    /\ pc["printer"] = "sleep"
    /\ pc' = [pc EXCEPT !["printer"] = "rlockLeft"]
    /\ UNCHANGED <<writer, reader, b, next, storeVars, cacheVars>>

\* The steps of the goroutine filling half h, and of the printing one.
FillerStep(h) ==
    FillerLock(h) \/ filler(h) \/ FillerUnlock(h) \/ FillerWake(h)

PrinterStep ==
    \/ PrinterRLockLeft
    \/ PrinterRLockRight
    \/ PrinterPrint
    \/ \E h \in Halves : PrinterRUnlock(h)
    \/ PrinterWake

BufNext ==
    \/ \E h \in Halves : FillerLock(h)
    \/ \E h \in Halves : filler(h)
    \/ \E h \in Halves : FillerUnlock(h)
    \/ \E h \in Halves : FillerWake(h)
    \/ PrinterRLockLeft
    \/ PrinterRLockRight
    \/ PrinterPrint
    \/ \E h \in Halves : PrinterRUnlock(h)
    \/ PrinterWake

BufSpec == Init /\ [][BufNext]_vars

\* The scheduler runs every goroutine that can take a step.
BufFairSpec ==
    /\ BufSpec
    /\ \A h \in Halves : WF_vars(FillerStep(h))
    /\ WF_vars(PrinterStep)

(* ------------------------------ claims -------------------------------- *)

\* The payload of a Select that returns exactly the features the facade's
\* requests should have stored: one per identifier, as marshalled.
LivePayload == SetToBag({MarshalFeature(f) : f \in drain(live)})

\* C1: index lockstep.  In every state the identifiers held in the Primary
\* Index are the identifiers a full scan of the Spatial Index enumerates.
IndexLockstep == DOMAIN primary = ScanIds(spatial)

\* C2: Select reflects the live feature set.  In the first process run,
\* the collection a Select computes holds exactly one feature per identifier
\* inserted or replaced and not deleted since, with its latest value.
SelectReflectsLive ==
    (exit = "none" /\ ret.call = "select") => ret.data = LivePayload

\* C3: synchronous submission with a response.  Once the processor has
\* fully applied what it received and is back at its select, no submitter
\* is still waiting for its response.
SubmitterAnswered ==
    (phase = "running" /\ tnx = NoTxn) => waiting = 0

\* C4: durability of applied mutations.  When the running processor has
\* applied a mutating transaction, a fresh engine started on the same log
\* and checkpoint files recovers the Primary Index of the running engine.
AppliedIsDurable ==
    (phase = "running" /\ tnx = NoTxn /\ ret.call \in Mutating
        /\ ret.err = "nil")
    => Recover(ckptFile, logFile).primary = primary

\* C5: checkpoint round trip.  After a checkpoint requested through the
\* facade and a fresh engine started on the same files, a Select returns
\* the features inserted before the checkpoint.
CheckpointRoundTrip ==
    (rt = "restarted" /\ ret.call = "select") => ret.data = LivePayload

\* The lines of a file before its first malformed one.
ValidPrefixLen(lines) ==
    CHOOSE n \in 0..Len(lines) :
        /\ \A i \in 1..n : lines[i] # Malformed
        /\ n < Len(lines) => lines[n + 1] = Malformed

ValidPrefix(lines) == SubSeq(lines, 1, ValidPrefixLen(lines))

\* The index built by records applied in order: for each identifier the
\* last record naming it decides, a delete leaving it absent.
LastWrite(recs, id) ==
    CHOOSE i \in 1..Len(recs) :
        /\ recs[i].feature.id = id
        /\ \A j \in (i + 1)..Len(recs) : recs[j].feature.id # id

LastWriterWins(recs) ==
    LET named == {recs[i].feature.id : i \in 1..Len(recs)}
        kept  == {id \in named : recs[LastWrite(recs, id)].action # "delete"}
    IN  [id \in kept |-> recs[LastWrite(recs, id)].feature]

\* C6: truncated-write-tolerant replay.  Startup does not fail, and replayLog
\* applies exactly the log lines before the first malformed one, in append
\* order, on top of the checkpoint.
TruncatedWriteTolerantReplay ==
    [][phase = "down" =>
          /\ phase' = "ready"
          /\ replayed' = ValidPrefixLen(logFile)
          /\ primary' = LastWriterWins(ValidPrefix(ckptFile.lines)
                                       \o ValidPrefix(logFile))]_vars

\* C6 witness: a recovery that applied two log lines and stopped at the
\* malformed third.
ReplayStoppedAtMalformed ==
    /\ phase = "ready"
    /\ replayed = 2
    /\ Len(logFile) > 2
    /\ logFile[1] # Malformed
    /\ logFile[2] # Malformed
    /\ logFile[3] = Malformed
    /\ DOMAIN primary # {}

\* C7: a Delete of an identifier that is not in the Primary Index fails
\* with a not-found error, appends nothing to the log, changes neither
\* index and does not advance the sequence number.
DeleteAbsentHasNoEffect ==
    [][\A id \in Ids :
          (/\ id \notin DOMAIN primary
           /\ \/ SaveTransaction(
                     Txn("delete", [id |-> id, geom |-> NoGeometry]), TRUE)
              \/ (tnx.action = "delete" /\ tnx.feature.id = id /\ RunApply))
          => (/\ ret'.err = "notfound"
              /\ UNCHANGED <<logFile, primary, spatial, lsn>>)]_vars

\* C8: within one engine run the sequence numbers of successive mutating
\* transactions are strictly increasing, and applying a Select never
\* changes the sequence counter.
SequenceStrictlyIncreasing ==
    [][/\ (seqs' # seqs /\ Len(seqs') >= 2) =>
              seqs'[Len(seqs')] > seqs'[Len(seqs') - 1]
       /\ (tnx.action = "select" /\ RunApply) => lsn' = lsn]_vars

\* C9: at every moment the sequence counter equals the number of mutating
\* transactions the processor has applied successfully in this run.
CounterCountsAppliedMutations == phase # "down" => lsn = okMut

\* C10: sequence numbers are not reused across a restart.  The counter of
\* a started engine is at least every sequence number in the log, so the
\* next mutation is stamped above them all.
CounterAboveLog ==
    phase # "down" =>
        \A i \in 1..Len(logFile) :
            logFile[i] # Malformed => logFile[i].lsn <= lsn

\* Some call of check.
CheckStep ==
    \E created, torn \in BOOLEAN, k \in 0..Cardinality(Ids) :
        Check(created, k, torn)

\* C11: checkpoint is all-or-nothing relative to truncation.  A check that
\* fails, at creating the file or at encoding any feature, leaves the
\* Record Log with every record it had before the attempt.
CheckpointFailureKeepsLog ==
    [][(CheckStep /\ ret'.err # "nil") => logFile' = logFile]_vars

\* C11 witness: two records were logged, check encoded one feature and
\* failed at the second, and the log still holds the two records.
FailedCheckpointKeptLog ==
    /\ ret.call = "check"
    /\ ret.err = "ioerror"
    /\ lsn = 2
    /\ Len(logFile) = 2
    /\ ckptFile.exists
    /\ Len(ckptFile.lines) = 1

\* The lines of the snapshot of a Primary Index, as a set.
SnapshotLines(p) == {Record("insert", 0, p[id]) : id \in DOMAIN p}

\* C12: after a check that succeeds, the checkpoint file holds exactly one
\* "insert" record per feature of the Primary Index and nothing else, the
\* Record Log is empty, and a recovery from the two files yields those
\* features as they were marshalled.
CheckpointSnapshotsPrimary ==
    [][(CheckStep /\ ret'.err = "nil") =>
          /\ ckptFile'.exists
          /\ Len(ckptFile'.lines) = Cardinality(DOMAIN primary)
          /\ {ckptFile'.lines[i] : i \in 1..Len(ckptFile'.lines)}
                 = SnapshotLines(primary)
          /\ logFile' = <<>>
          /\ Recover(ckptFile', logFile').primary
                 = [id \in DOMAIN primary |-> MarshalFeature(primary[id])]
      ]_vars

\* C12 witness: two features were saved in this run (two log records), a
\* check succeeded, the checkpoint holds two lines and the log none.
CheckpointTaken ==
    /\ ret.call = "check"
    /\ ret.err = "nil"
    /\ lsn = 2
    /\ Cardinality(DOMAIN primary) = 2
    /\ ckptFile.exists
    /\ Len(ckptFile.lines) = 2
    /\ logFile = <<>>

\* C13: Select is read-only and never logged.  The processor's apply of a
\* Select leaves the Primary Index, the Spatial Index and the Record Log
\* unchanged, and every record the log ever holds is an Insert, a Replace
\* or a Delete (or a torn line), never a Select or a Checkpoint.
SelectReadOnlyNeverLogged ==
    [][/\ (tnx.action = "select" /\ RunApply) =>
              UNCHANGED <<primary, spatial, logFile>>
       /\ \A i \in 1..Len(logFile') :
              logFile'[i].action \in Mutating \cup {Malformed.action}]_vars

\* C13 witness: a Select was applied by an engine whose log holds two
\* records and whose Spatial Index holds two entries for one identifier.
SelectApplied ==
    /\ phase = "running"
    /\ tnx = NoTxn
    /\ ret.call = "select"
    /\ Len(logFile) = 2
    /\ Cardinality(DOMAIN primary) = 1
    /\ SumCopies(BagToSet(spatial), spatial) = 2

\* The action each facade operation stands for.
OperationOf(via) ==
    CASE via = "insertHandler" -> "insert"
      [] via = "replaceHandler" -> "replace"
      [] via = "deleteHandler" -> "delete"
      [] via = "selectHandler" -> "select"
      [] via = "checkpointHandler" -> "checkpoint"
      [] OTHER -> "none"

\* C14: the facade maps 1:1 to transactions.  The transaction the processor
\* receives from a handler carries the action of that handler's operation,
\* the delete handler's with the identifier only.
FacadeMapsOneToOne ==
    tnx # NoTxn =>
        /\ tnx.action = OperationOf(tnx.via)
        /\ tnx.via = "deleteHandler" => tnx.feature.geom = NoGeometry

\* C15: serialized application in the order of reception.  The processor
\* takes a transaction from jobs only when the one taken before has been
\* applied, and taking applies nothing; while it runs the indices change
\* only by the apply of the transaction it holds; and the transaction it
\* holds leaves its hands only by being applied, once, with the normal
\* apply algorithm.
SerializedInOrder ==
    [][/\ (tnx' # tnx /\ tnx' # NoTxn) =>
              (tnx = NoTxn /\ UNCHANGED <<primary, spatial>>)
       /\ (phase = "running" /\ phase' = "running"
              /\ <<primary, spatial>>' # <<primary, spatial>>) =>
              (tnx # NoTxn /\ tnx' = NoTxn)
       /\ (phase' = "running" /\ tnx # NoTxn /\ tnx' # tnx) =>
              /\ tnx' = NoTxn
              /\ primary' = ApplyTransaction(primary, spatial, tnx).primary
              /\ spatial' = ApplyTransaction(primary, spatial, tnx).spatial
      ]_vars

\* C15 witness: three handlers have submitted in one run, each transaction
\* was applied before the next was taken, and both identifiers are stored.
ThreeAppliedInTurn ==
    /\ phase = "running"
    /\ waiting = 3
    /\ tnx = NoTxn
    /\ Cardinality(DOMAIN primary) = 2
    /\ ret.call \in Mutating

\* C16: shutdown stops the processor.  Once the processor has seen the
\* shutdown signal and closed the Record Log, it does not close it again
\* and takes no further transaction from jobs.
ShutdownStopsProcessor ==
    [][closes >= 1 => (closes' <= 1 /\ tnx' = NoTxn)]_vars

\* C17: no submitter hangs across shutdown.  Once the processor has seen
\* the shutdown signal and holds no transaction, no submitter is left
\* waiting for a response: each was answered, with "engine stopped" if not
\* with its result.
NoSubmitterHangsAcrossShutdown ==
    (stopped /\ closes >= 1 /\ tnx = NoTxn) => waiting = 0

\* C18: single owner of engine state.  No goroutine other than the
\* processor's has accessed the Primary Index while the processor was
\* running.
SingleOwner == foreign = "none"

\* C19: startup recovery.  When the engine is ready to accept its first
\* submission, the Primary Index is what the records of the checkpoint file
\* and then of the Record Log build on an empty index, and the Spatial
\* Index holds the identifiers of that Primary Index.
StartupRecovery ==
    (phase = "running" /\ waiting = 0 /\ tnx = NoTxn) =>
        /\ primary = Recover(ckptFile, logFile).primary
        /\ ScanIds(spatial) = DOMAIN primary

\* The actions of applyTransaction's switch.
KnownActions == Mutating \cup {"select", "checkpoint"}

\* C20: a transaction with an unknown action is answered with an
\* unknown-action error; the processor keeps running and the indices, the
\* log and the sequence counter are unchanged.
UnknownActionAnswered ==
    [][(tnx # NoTxn /\ tnx.action \notin KnownActions /\ RunApply) =>
          /\ phase' = "running"
          /\ ret'.err = "unknownaction"
          /\ UNCHANGED <<primary, spatial, logFile, lsn>>]_vars

\* C21: the processor's apply of a Checkpoint transaction is a checkpoint
\* save.  It succeeds, the checkpoint file that startup recovery reads
\* then holds the snapshot of the whole Primary Index, the Record Log is
\* truncated, and the Primary and Spatial Index are unchanged.
CheckpointActionSaves ==
    [][(tnx.action = "checkpoint" /\ RunApply) =>
          /\ ret'.err = "nil"
          /\ ckptFile'.exists
          /\ {ckptFile'.lines[i] : i \in 1..Len(ckptFile'.lines)}
                 = SnapshotLines(primary)
          /\ logFile' = <<>>
          /\ UNCHANGED <<primary, spatial>>]_vars

\* C22: Storage.Run's load of the full-database JSON file is not part of
\* the engine's state.  After Storage.Run the Primary Index is the one
\* NewEngine recovered from checkpoint and log, and the Primary and the
\* Spatial Index hold the same identifiers.
StorageRunKeepsEngineState ==
    [][StorageRun =>
          /\ phase' = "running"
          /\ primary' = primary
          /\ DOMAIN primary' = ScanIds(spatial')]_vars

\* C23: the Spatial Index holds at most one entry per identifier, and
\* that entry is the feature the Primary Index stores under the
\* identifier.
SpatialHoldsCurrentFeatureOnce ==
    \A f \in BagToSet(spatial) :
        /\ CopiesIn(f, spatial) = 1
        /\ f.id \in DOMAIN primary
        /\ primary[f.id] = f

\* A Primary Index as the files hold it: every feature marshalled.
Marshalled(p) == [id \in DOMAIN p |-> MarshalFeature(p[id])]

\* C24: replay is idempotent over a checkpoint.  When the process dies in
\* check after the checkpoint file was written and before the log was
\* truncated, recovery from the new checkpoint and the whole old log
\* yields the Primary Index held when the checkpoint was taken.
ReplayIdempotentOverCheckpoint ==
    [][CheckKilled =>
          Recover(ckptFile', logFile').primary = Marshalled(primary)]_vars

\* C25: a failed checkpoint loses nothing.  When the files held the
\* Primary Index before a check that returns an error, a restart on the
\* files it leaves still recovers that Primary Index.
FailedCheckpointLosesNothing ==
    [][(/\ CheckStep
        /\ ret'.err # "nil"
        /\ Recover(ckptFile, logFile).primary = Marshalled(primary)) =>
          Recover(ckptFile', logFile').primary = Marshalled(primary)]_vars

\* The identifiers of a collection's features.
CollectionIds(features) == {features[i].id : i \in 1..Len(features)}

\* C26: in the map-plus-collection storage, after any sequence of insert,
\* replace and delete requests the keys of geoCache are the identifiers in
\* geoDB.Features, every identifier occurs there exactly once, and no
\* handler has failed with an out-of-range index.
CacheMatchesCollection ==
    /\ DOMAIN geoCache = CollectionIds(geoDB)
    /\ Cardinality(CollectionIds(geoDB)) = Len(geoDB)
    /\ code # "panic"

\* The printing goroutine is reading the buffer under both read locks.
Reading ==
    /\ pc["printer"] = "print"
    /\ reader["left"] = "held"
    /\ reader["right"] = "held"

\* The goroutine filling half h is inside filler, under its write lock.
Writing(h) == pc[h] = "fill" /\ writer[h] = "held"

\* C27: whenever the printing goroutine reads the buffer, under the read
\* locks of both halves, neither filler goroutine is writing; and the three
\* goroutines never deadlock: each acquires its locks again and again.
ReadersExcludeWritersAndAllProgress ==
    /\ [](Reading => \A h \in Halves : ~Writing(h))
    /\ \A h \in Halves : []<>Writing(h)
    /\ []<>Reading

\* C27 witness: the printing goroutine reads while both fillers have
\* called Lock and wait for it to release the halves.
ReadingWhileFillersWait ==
    /\ Reading
    /\ \A h \in Halves : pc[h] = "fill" /\ writer[h] = "waiting"
    /\ b["left"][1] # ZeroByte
    /\ b["right"][1] # ZeroByte

=============================================================================
